---- MODULE Spec2Model ----
(***************************************************************************)
(* A model of the YAML query DSL server of experiments/embeddings:         *)
(* the query compiler BuildBleveQuery, the options applier                 *)
(* ApplySearchOptions, the embeddings client and the POST /search handler. *)
(*                                                                         *)
(* Go values are modelled as records.  A nil pointer, a nil error and a    *)
(* nil query are the record Nil.  A slice is a record with its nil-ness    *)
(* and its elements, because the code tells a nil slice from an empty one. *)
(* float64 values are modelled by integers.  Go indexes lists from 0, the  *)
(* model from 1.                                                           *)
(***************************************************************************)
EXTENDS Integers, Sequences, FiniteSets, TLC

Nil == [nil |-> TRUE]

NilSlice == [isNil |-> TRUE, elems |-> <<>>]

Slice(s) == [isNil |-> FALSE, elems |-> s]

(***************************************************************************)
(* Bounds of the model.                                                    *)
(***************************************************************************)
\* The largest number of children (must, should and must_not together) of
\* the root Boolean clause of a request.
MaxChildren == 2

\* The largest number of entries of the sort list of a request's options.
MaxSort == 2

(***************************************************************************)
(* Errors.  fmt.Errorf with %q or %d keeps the offending value in arg;     *)
(* with %w it keeps the wrapped error in wraps.                            *)
(***************************************************************************)
Errorf(msg, arg, wraps) == [msg |-> msg, arg |-> arg, wraps |-> wraps]

NoArg == [none |-> TRUE]

(***************************************************************************)
(* The engine's queries and request (bleve).                               *)
(***************************************************************************)
DefaultBoost == [isSet |-> FALSE, val |-> 1]

NewMatchQuery(value) ==
    [kind |-> "match", Match |-> value, FieldVal |-> "", BoostVal |-> DefaultBoost,
     Operator |-> "or", Fuzziness |-> 0, Prefix |-> 0]

NewMatchPhraseQuery(value) ==
    [kind |-> "match_phrase", MatchPhrase |-> value, FieldVal |-> "",
     BoostVal |-> DefaultBoost, Slop |-> 0]

NewMatchAllQuery == [kind |-> "match_all", BoostVal |-> DefaultBoost]

NewBooleanQuery ==
    [kind |-> "bool", Must |-> <<>>, Should |-> <<>>, MustNot |-> <<>>,
     MinShould |-> 0, BoostVal |-> DefaultBoost]

NewTermQuery(value) ==
    [kind |-> "term", Term |-> value, FieldVal |-> "", BoostVal |-> DefaultBoost]

NewQueryStringQuery(query) ==
    [kind |-> "query_string", Query |-> query, BoostVal |-> DefaultBoost]

NewPrefixQuery(value) ==
    [kind |-> "prefix", Prefix |-> value, FieldVal |-> "", BoostVal |-> DefaultBoost]

NewWildcardQuery(value) ==
    [kind |-> "wildcard", Wildcard |-> value, FieldVal |-> "", BoostVal |-> DefaultBoost]

\* min and max are *float64: Nil or [val |-> n].  The code passes no
\* inclusivity flags, so the query is built with the engine's defaults.
NewNumericRangeQuery(min, max) ==
    [kind |-> "numeric_range", Min |-> min, Max |-> max,
     InclusiveMin |-> Nil, InclusiveMax |-> Nil,
     FieldVal |-> "", BoostVal |-> DefaultBoost]

NewDateRangeQuery(start, end) ==
    [kind |-> "date_range", Start |-> start, End |-> end,
     InclusiveStart |-> Nil, InclusiveEnd |-> Nil,
     FieldVal |-> "", BoostVal |-> DefaultBoost]

\* The engine's inclusivity of a range query built without flags: the lower
\* endpoint is included, the upper endpoint is not.
DefaultInclusiveMin == TRUE

DefaultInclusiveMax == FALSE

SetField(query, field) == [query EXCEPT !.FieldVal = field]

SetBoost(query, boost) == [query EXCEPT !.BoostVal = [isSet |-> TRUE, val |-> boost]]

DefaultSize == 10

DefaultSort == <<"-_score">>

NewSearchRequest(query) ==
    [Query |-> query, Size |-> DefaultSize, From |-> 0, Highlight |-> Nil,
     Fields |-> NilSlice, Explain |-> FALSE, Sort |-> DefaultSort, KNN |-> <<>>]

AddKNN(searchRequest, field, vector, k, boost) ==
    [searchRequest EXCEPT !.KNN =
        Append(@, [Field |-> field, Vector |-> vector, K |-> k, Boost |-> boost])]

\* SortBy replaces the request's sort order by the given one.
SortBy(searchRequest, order) == [searchRequest EXCEPT !.Sort = order]

NewHighlight == [Style |-> Nil, Fields |-> NilSlice]

(***************************************************************************)
(* The embeddings client.  The provider's answer to the n-th call of a     *)
(* compilation is outcome[n]: an embedding, a transport failure, an        *)
(* undecodable body, or a well-formed body without an embedding.           *)
(***************************************************************************)
EmbedOutcomes == {"ok", "unreachable", "bad_response", "no_embedding"}

DefaultClient == [ollamaURL |-> "http://localhost:11434", model |-> "all-minilm"]

embeddingsClient == DefaultClient

\* The vector the provider computes for a prompt under a model.
EmbeddingOf(model, prompt) == Slice(<<model, prompt>>)

\* env = [outcome, calls, visited]: the provider's answers, the calls made
\* so far (the request sent and the error returned) and the clauses
\* BuildBleveQuery was called on so far.
GenerateEmbedding(c, text, env) ==
    LET reqBody == [Model |-> c.model, Prompt |-> text]
        n       == Len(env.calls) + 1
        answer  == IF n \in DOMAIN env.outcome THEN env.outcome[n] ELSE "ok"
        err     == CASE answer = "unreachable" -> Errorf("http post", NoArg, Nil)
                     [] answer = "bad_response" -> Errorf("json unmarshal", NoArg, Nil)
                     [] OTHER -> Nil
        vector  == IF answer = "ok"
                   THEN EmbeddingOf(reqBody.Model, reqBody.Prompt) ELSE NilSlice
    IN  [vector |-> vector, err |-> err,
         env |-> [env EXCEPT !.calls = Append(@, [request |-> reqBody, err |-> err])]]

(***************************************************************************)
(* Library functions the compiler uses on strings.                         *)
(***************************************************************************)
ToLower(s) ==
    CASE s = "AND" -> "and"
      [] s = "And" -> "and"
      [] s = "OR"  -> "or"
      [] s = "XOR" -> "xor"
      [] OTHER     -> s

\* time.Parse(time.RFC3339, s) on the date strings of the model: the
\* instant (in days) or an error.
ParseRFC3339(s) ==
    CASE s = "2024-01-01T00:00:00Z" -> [time |-> 19723, err |-> Nil]
      [] s = "2024-12-31T23:59:59Z" -> [time |-> 20088, err |-> Nil]
      [] OTHER -> [time |-> 0, err |-> Errorf("parsing time", [val |-> s], Nil)]

(***************************************************************************)
(* BuildBleveQuery.  A QueryDSL value is a record with one field per       *)
(* variant, each Nil or the variant's record.  The result is the returned  *)
(* query and error, whether the call panicked, and env after the call.     *)
(***************************************************************************)
Return(query, err, env) == [query |-> query, err |-> err, panic |-> FALSE, env |-> env]

Panic(env) == [query |-> Nil, err |-> Nil, panic |-> TRUE, env |-> env]

Failed(r) == r.panic \/ r.err # Nil

RECURSIVE BuildBleveQuery(_, _, _)
RECURSIVE BuildChildren(_, _, _, _, _, _)

\* WithBoost setting the clause's boost whatever its value.
WithBoostUnchecked(query, boost) == SetBoost(query, boost)

WithBoost(query, boost) == IF boost # 0 THEN SetBoost(query, boost) ELSE query

\* BuildMatch comparing the operator as it is written.
BuildMatchLiteralOperator(m, env) ==
    LET query == WithBoost(SetField(NewMatchQuery(m.Value), m.Field), m.Boost)
        q1    == IF m.Operator # "" THEN [query EXCEPT !.Operator = m.Operator] ELSE query
        q2    == IF m.Fuzziness # 0 THEN [q1 EXCEPT !.Fuzziness = m.Fuzziness] ELSE q1
        q3    == IF m.PrefixLength # 0 THEN [q2 EXCEPT !.Prefix = m.PrefixLength] ELSE q2
    IN  IF m.Operator # "" /\ m.Operator \notin {"or", "and"}
        THEN Return(Nil, Errorf("invalid operator, must be 'and' or 'or'",
                                [val |-> m.Operator], Nil), env)
        ELSE IF m.Fuzziness # 0 /\ m.Fuzziness < 0
        THEN Return(Nil, Errorf("fuzziness must be non-negative",
                                [val |-> m.Fuzziness], Nil), env)
        ELSE IF m.PrefixLength # 0 /\ m.PrefixLength < 0
        THEN Return(Nil, Errorf("prefix_length must be non-negative",
                                [val |-> m.PrefixLength], Nil), env)
        ELSE Return(q3, Nil, env)

\* BuildMatch without the checks of the signs of fuzziness and prefix_length.
BuildMatchAcceptingNegatives(m, env) ==
    LET query == WithBoost(SetField(NewMatchQuery(m.Value), m.Field), m.Boost)
        op    == ToLower(m.Operator)
        q1    == IF m.Operator # "" THEN [query EXCEPT !.Operator = op] ELSE query
        q2    == IF m.Fuzziness # 0 THEN [q1 EXCEPT !.Fuzziness = m.Fuzziness] ELSE q1
        q3    == IF m.PrefixLength # 0 THEN [q2 EXCEPT !.Prefix = m.PrefixLength] ELSE q2
    IN  IF m.Operator # "" /\ op \notin {"or", "and"}
        THEN Return(Nil, Errorf("invalid operator, must be 'and' or 'or'",
                                [val |-> m.Operator], Nil), env)
        ELSE Return(q3, Nil, env)

BuildMatch(m, env) ==
    LET query == WithBoost(SetField(NewMatchQuery(m.Value), m.Field), m.Boost)
        op    == ToLower(m.Operator)
        q1    == IF m.Operator # "" THEN [query EXCEPT !.Operator = op] ELSE query
        q2    == IF m.Fuzziness # 0 THEN [q1 EXCEPT !.Fuzziness = m.Fuzziness] ELSE q1
        q3    == IF m.PrefixLength # 0 THEN [q2 EXCEPT !.Prefix = m.PrefixLength] ELSE q2
    IN  IF m.Operator # "" /\ op \notin {"or", "and"}
        THEN Return(Nil, Errorf("invalid operator, must be 'and' or 'or'",
                                [val |-> m.Operator], Nil), env)
        ELSE IF m.Fuzziness # 0 /\ m.Fuzziness < 0
        THEN Return(Nil, Errorf("fuzziness must be non-negative",
                                [val |-> m.Fuzziness], Nil), env)
        ELSE IF m.PrefixLength # 0 /\ m.PrefixLength < 0
        THEN Return(Nil, Errorf("prefix_length must be non-negative",
                                [val |-> m.PrefixLength], Nil), env)
        ELSE Return(q3, Nil, env)

BuildMatchPhrase(m, env) ==
    Return(WithBoost(SetField(NewMatchPhraseQuery(m.Value), m.Field), m.Boost), Nil, env)

\* The request the Vector branch builds and augments; only its Query
\* leaves the branch.
VectorSearchRequest(v, queryVector) ==
    LET searchRequest == [NewSearchRequest(NewMatchAllQuery) EXCEPT !.Size = v.K]
    IN  AddKNN(searchRequest, v.Field, queryVector, v.K, v.Boost)

\* BuildVector without the check of the embedding call's error.
BuildVectorSwallowingFailure(v, env) ==
    IF v.Text # ""
    THEN LET g == GenerateEmbedding(embeddingsClient, v.Text, env)
         IN  Return(VectorSearchRequest(v, g.vector).Query, Nil, g.env)
    ELSE IF ~v.Vector.isNil
    THEN Return(VectorSearchRequest(v, v.Vector).Query, Nil, env)
    ELSE Return(Nil, Errorf("either text or vector must be provided for vector query",
                            NoArg, Nil), env)

\* BuildVector without the final else: a clause with neither text nor
\* vector searches with the nil vector.
BuildVectorDefaultingInput(v, env) ==
    IF v.Text # ""
    THEN LET g == GenerateEmbedding(embeddingsClient, v.Text, env)
         IN  IF g.err # Nil
             THEN Return(Nil, Errorf("failed to generate vector embedding", NoArg, g.err),
                         g.env)
             ELSE Return(VectorSearchRequest(v, g.vector).Query, Nil, g.env)
    ELSE Return(VectorSearchRequest(v, v.Vector).Query, Nil, env)

BuildVector(v, env) ==
    IF v.Text # ""
    THEN LET g == GenerateEmbedding(embeddingsClient, v.Text, env)
         IN  IF g.err # Nil
             THEN Return(Nil, Errorf("failed to generate vector embedding", NoArg, g.err),
                         g.env)
             ELSE Return(VectorSearchRequest(v, g.vector).Query, Nil, g.env)
    ELSE IF ~v.Vector.isNil
    THEN Return(VectorSearchRequest(v, v.Vector).Query, Nil, env)
    ELSE Return(Nil, Errorf("either text or vector must be provided for vector query",
                            NoArg, Nil), env)

\* BuildBool with the should loop before the must loop.
BuildBoolShouldFirst(b, path, env) ==
    LET should == BuildChildren(b.Should, "should", 1, path, env, <<>>)
        must == BuildChildren(b.Must, "must", 1, path, should.env, <<>>)
        mustNot == BuildChildren(b.MustNot, "must_not", 1, path, must.env, <<>>)
        boolQuery == [NewBooleanQuery EXCEPT !.Must = must.queries,
                                             !.Should = should.queries,
                                             !.MustNot = mustNot.queries]
        q1 == IF b.MinimumShouldMatch > 0
              THEN [boolQuery EXCEPT !.MinShould = b.MinimumShouldMatch]
              ELSE boolQuery
    IN  IF Failed(should) THEN [query |-> Nil, err |-> should.err,
                                panic |-> should.panic, env |-> should.env]
        ELSE IF Failed(must) THEN [query |-> Nil, err |-> must.err, panic |-> must.panic,
                                   env |-> must.env]
        ELSE IF Failed(mustNot) THEN [query |-> Nil, err |-> mustNot.err,
                                      panic |-> mustNot.panic, env |-> mustNot.env]
        ELSE Return(WithBoost(q1, b.Boost), Nil, mustNot.env)

\* BuildBool setting minimum_should_match whatever its value.
BuildBoolMinShouldUnchecked(b, path, env) ==
    LET must == BuildChildren(b.Must, "must", 1, path, env, <<>>)
        should == BuildChildren(b.Should, "should", 1, path, must.env, <<>>)
        mustNot == BuildChildren(b.MustNot, "must_not", 1, path, should.env, <<>>)
        boolQuery == [NewBooleanQuery EXCEPT !.Must = must.queries,
                                             !.Should = should.queries,
                                             !.MustNot = mustNot.queries,
                                             !.MinShould = b.MinimumShouldMatch]
    IN  IF Failed(must) THEN [query |-> Nil, err |-> must.err, panic |-> must.panic,
                              env |-> must.env]
        ELSE IF Failed(should) THEN [query |-> Nil, err |-> should.err,
                                     panic |-> should.panic, env |-> should.env]
        ELSE IF Failed(mustNot) THEN [query |-> Nil, err |-> mustNot.err,
                                      panic |-> mustNot.panic, env |-> mustNot.env]
        ELSE Return(WithBoost(boolQuery, b.Boost), Nil, mustNot.env)

BuildBool(b, path, env) ==
    LET must == BuildChildren(b.Must, "must", 1, path, env, <<>>)
        should == BuildChildren(b.Should, "should", 1, path, must.env, <<>>)
        mustNot == BuildChildren(b.MustNot, "must_not", 1, path, should.env, <<>>)
        boolQuery == [NewBooleanQuery EXCEPT !.Must = must.queries,
                                             !.Should = should.queries,
                                             !.MustNot = mustNot.queries]
        q1 == IF b.MinimumShouldMatch > 0
              THEN [boolQuery EXCEPT !.MinShould = b.MinimumShouldMatch]
              ELSE boolQuery
    IN  IF Failed(must) THEN [query |-> Nil, err |-> must.err, panic |-> must.panic,
                              env |-> must.env]
        ELSE IF Failed(should) THEN [query |-> Nil, err |-> should.err,
                                     panic |-> should.panic, env |-> should.env]
        ELSE IF Failed(mustNot) THEN [query |-> Nil, err |-> mustNot.err,
                                      panic |-> mustNot.panic, env |-> mustNot.env]
        ELSE Return(WithBoost(q1, b.Boost), Nil, mustNot.env)

BuildTerm(t, env) ==
    Return(WithBoost(SetField(NewTermQuery(t.Value), t.Field), t.Boost), Nil, env)

BuildQueryString(qs, env) ==
    Return(WithBoost(NewQueryStringQuery(qs.Query), qs.Boost), Nil, env)

BuildPrefix(p, env) ==
    Return(WithBoost(SetField(NewPrefixQuery(p.Value), p.Field), p.Boost), Nil, env)

BuildWildcard(w, env) ==
    Return(WithBoost(SetField(NewWildcardQuery(w.Value), w.Field), w.Boost), Nil, env)

BuildNumericRange(n, env) ==
    Return(WithBoost(SetField(NewNumericRangeQuery(n.Min, n.Max), n.Field), n.Boost),
           Nil, env)

\* BuildDateRange parsing the end bound before the start bound.
BuildDateRangeEndFirst(d, env) ==
    LET start == ParseRFC3339(d.Start)
        end   == ParseRFC3339(d.End)
        startTime == IF d.Start # "" THEN [val |-> start.time] ELSE Nil
        endTime   == IF d.End # "" THEN [val |-> end.time] ELSE Nil
    IN  IF d.End # "" /\ end.err # Nil
        THEN Return(Nil, Errorf("invalid end date", [val |-> d.End], end.err), env)
        ELSE IF d.Start # "" /\ start.err # Nil
        THEN Return(Nil, Errorf("invalid start date", [val |-> d.Start], start.err), env)
        ELSE IF startTime = Nil \/ endTime = Nil
        THEN Panic(env)
        ELSE Return(WithBoost(SetField(NewDateRangeQuery(startTime.val, endTime.val),
                                       d.Field), d.Boost), Nil, env)

\* startTime and endTime are *time.Time, nil until a non-empty bound has
\* been parsed; the code dereferences both.
BuildDateRange(d, env) ==
    LET start == ParseRFC3339(d.Start)
        end   == ParseRFC3339(d.End)
        startTime == IF d.Start # "" THEN [val |-> start.time] ELSE Nil
        endTime   == IF d.End # "" THEN [val |-> end.time] ELSE Nil
    IN  IF d.Start # "" /\ start.err # Nil
        THEN Return(Nil, Errorf("invalid start date", [val |-> d.Start], start.err), env)
        ELSE IF d.End # "" /\ end.err # Nil
        THEN Return(Nil, Errorf("invalid end date", [val |-> d.End], end.err), env)
        ELSE IF startTime = Nil \/ endTime = Nil
        THEN Panic(env)
        ELSE Return(WithBoost(SetField(NewDateRangeQuery(startTime.val, endTime.val),
                                       d.Field), d.Boost), Nil, env)

\* BuildNoVariant falling back to a match-all query.
BuildNoVariantMatchAll(env) == Return(NewMatchAllQuery, Nil, env)

BuildNoVariant(env) == Return(Nil, Errorf("no valid query type found", NoArg, Nil), env)

\* One of the three loops of the Bool branch, from child i on: the queries
\* compiled so far, or the failure of the first child that fails.
BuildChildren(children, list, i, path, env, acc) ==
    IF i > Len(children)
    THEN [queries |-> acc, err |-> Nil, panic |-> FALSE, env |-> env]
    ELSE LET r == BuildBleveQuery(children[i], Append(path, <<list, i>>), env)
         IN  IF Failed(r)
             THEN [queries |-> acc, err |-> r.err, panic |-> r.panic, env |-> r.env]
             ELSE BuildChildren(children, list, i + 1, path, r.env, Append(acc, r.query))

\* path is the position of q in the request's clause tree: the list and
\* index of each Boolean child on the way from the root.
BuildBleveQuery(q, path, env) ==
    LET env1 == [env EXCEPT !.visited = Append(@, path)]
    IN  IF q.Match # Nil THEN BuildMatch(q.Match, env1)
        ELSE IF q.MatchPhrase # Nil THEN BuildMatchPhrase(q.MatchPhrase, env1)
        ELSE IF q.Vector # Nil THEN BuildVector(q.Vector, env1)
        ELSE IF q.Bool # Nil THEN BuildBool(q.Bool, path, env1)
        ELSE IF q.Term # Nil THEN BuildTerm(q.Term, env1)
        ELSE IF q.QueryString # Nil THEN BuildQueryString(q.QueryString, env1)
        ELSE IF q.Prefix # Nil THEN BuildPrefix(q.Prefix, env1)
        ELSE IF q.Wildcard # Nil THEN BuildWildcard(q.Wildcard, env1)
        ELSE IF q.NumericRange # Nil THEN BuildNumericRange(q.NumericRange, env1)
        ELSE IF q.DateRange # Nil THEN BuildDateRange(q.DateRange, env1)
        ELSE BuildNoVariant(env1)

(***************************************************************************)
(* ApplySearchOptions.  options is Nil or a SearchOptions record.          *)
(***************************************************************************)
SortToken(sort) ==
    IF sort.Field = "_score" THEN "-_score"
    ELSE IF sort.Desc THEN "-" \o sort.Field
    ELSE sort.Field

RECURSIVE ApplySort(_, _, _)
ApplySort(searchRequest, sorts, i) ==
    IF i > Len(sorts) THEN searchRequest
    ELSE ApplySort(SortBy(searchRequest, <<SortToken(sorts[i])>>), sorts, i + 1)

\* ApplySearchOptions taking absent options for options with the default
\* page.
ApplySearchOptionsDefaultingNil(searchRequest, options) ==
    IF options = Nil THEN [searchRequest EXCEPT !.Size = DefaultSize, !.From = 0]
    ELSE LET r1 == IF options.Size > 0
                   THEN [searchRequest EXCEPT !.Size = options.Size] ELSE searchRequest
             r2 == IF options.From > 0 THEN [r1 EXCEPT !.From = options.From] ELSE r1
             r3 == IF Len(options.Fields.elems) > 0
                   THEN [r2 EXCEPT !.Fields = options.Fields] ELSE r2
             r4 == IF options.Explain THEN [r3 EXCEPT !.Explain = TRUE] ELSE r3
             r5 == IF options.Highlight # Nil
                   THEN [r4 EXCEPT !.Highlight =
                            [NewHighlight EXCEPT !.Fields = options.Highlight.Fields]]
                   ELSE r4
         IN  ApplySort(r5, options.Sort, 1)

\* ApplySearchOptions assigning size, from and fields whatever their values.
ApplySearchOptionsUnguarded(searchRequest, options) ==
    IF options = Nil THEN searchRequest
    ELSE LET r3 == [searchRequest EXCEPT !.Size = options.Size, !.From = options.From,
                                         !.Fields = options.Fields]
             r4 == IF options.Explain THEN [r3 EXCEPT !.Explain = TRUE] ELSE r3
             r5 == IF options.Highlight # Nil
                   THEN [r4 EXCEPT !.Highlight =
                            [NewHighlight EXCEPT !.Fields = options.Highlight.Fields]]
                   ELSE r4
         IN  ApplySort(r5, options.Sort, 1)

\* ApplySearchOptions assigning the options' explain flag whatever its value.
ApplySearchOptionsAssigningExplain(searchRequest, options) ==
    IF options = Nil THEN searchRequest
    ELSE LET r1 == IF options.Size > 0
                   THEN [searchRequest EXCEPT !.Size = options.Size] ELSE searchRequest
             r2 == IF options.From > 0 THEN [r1 EXCEPT !.From = options.From] ELSE r1
             r3 == IF Len(options.Fields.elems) > 0
                   THEN [r2 EXCEPT !.Fields = options.Fields] ELSE r2
             r4 == [r3 EXCEPT !.Explain = options.Explain]
             r5 == IF options.Highlight # Nil
                   THEN [r4 EXCEPT !.Highlight =
                            [NewHighlight EXCEPT !.Fields = options.Highlight.Fields]]
                   ELSE r4
         IN  ApplySort(r5, options.Sort, 1)

\* ApplySearchOptions moving the request's offset on by the options' offset.
ApplySearchOptionsAdvancingFrom(searchRequest, options) ==
    IF options = Nil THEN searchRequest
    ELSE LET r1 == IF options.Size > 0
                   THEN [searchRequest EXCEPT !.Size = options.Size] ELSE searchRequest
             r2 == IF options.From > 0 THEN [r1 EXCEPT !.From = @ + options.From] ELSE r1
             r3 == IF Len(options.Fields.elems) > 0
                   THEN [r2 EXCEPT !.Fields = options.Fields] ELSE r2
             r4 == IF options.Explain THEN [r3 EXCEPT !.Explain = TRUE] ELSE r3
             r5 == IF options.Highlight # Nil
                   THEN [r4 EXCEPT !.Highlight =
                            [NewHighlight EXCEPT !.Fields = options.Highlight.Fields]]
                   ELSE r4
         IN  ApplySort(r5, options.Sort, 1)

ApplySearchOptions(searchRequest, options) ==
    IF options = Nil THEN searchRequest
    ELSE LET r1 == IF options.Size > 0
                   THEN [searchRequest EXCEPT !.Size = options.Size] ELSE searchRequest
             r2 == IF options.From > 0 THEN [r1 EXCEPT !.From = options.From] ELSE r1
             r3 == IF Len(options.Fields.elems) > 0
                   THEN [r2 EXCEPT !.Fields = options.Fields] ELSE r2
             r4 == IF options.Explain THEN [r3 EXCEPT !.Explain = TRUE] ELSE r3
             r5 == IF options.Highlight # Nil
                   THEN [r4 EXCEPT !.Highlight =
                            [NewHighlight EXCEPT !.Fields = options.Highlight.Fields]]
                   ELSE r4
         IN  ApplySort(r5, options.Sort, 1)

(***************************************************************************)
(* The requests the model sends: the clauses and options they decode to.   *)
(***************************************************************************)
Variants == {"Match", "MatchPhrase", "Vector", "Bool", "Term", "QueryString",
             "Prefix", "Wildcard", "NumericRange", "DateRange"}

EmptyClause ==
    [Match |-> Nil, MatchPhrase |-> Nil, Vector |-> Nil, Bool |-> Nil, Term |-> Nil,
     QueryString |-> Nil, Prefix |-> Nil, Wildcard |-> Nil, NumericRange |-> Nil,
     DateRange |-> Nil]

Clause(variant, body) == [EmptyClause EXCEPT ![variant] = body]

Boosts == {0, 2}

MatchQueries ==
    {[Field |-> "content", Value |-> "fox", Boost |-> b, Operator |-> o,
      Fuzziness |-> f, PrefixLength |-> p] :
        b \in Boosts, o \in {"", "and", "or", "AND", "OR", "xor"},
        f \in {-1, 0, 1}, p \in {-1, 0, 1}}

MatchPhraseQueries ==
    {[Field |-> "content", Value |-> "quick brown fox", Boost |-> b, Slop |-> sl] :
        b \in Boosts, sl \in {0, 1}}

VectorQueries ==
    {[Field |-> "embedding", Text |-> t, Vector |-> v, Model |-> m, K |-> k, Boost |-> b] :
        t \in {"", "life"}, v \in {NilSlice, Slice(<<>>), Slice(<<1, 2>>)},
        m \in {"all-minilm", "nomic-embed-text"}, k \in {-1, 0, 5}, b \in Boosts}

TermQueries == {[Field |-> "status", Value |-> "draft", Boost |-> b] : b \in Boosts}

QueryStringQueries ==
    {[Query |-> "+fox -dog", DefaultField |-> d, Boost |-> b] :
        d \in {"", "content"}, b \in Boosts}

PrefixQueries == {[Field |-> "content", Value |-> "qui", Boost |-> b] : b \in Boosts}

WildcardQueries == {[Field |-> "content", Value |-> "f*x", Boost |-> b] : b \in Boosts}

NumericRangeQueries ==
    {[Field |-> "price", Min |-> lo, Max |-> hi, InclusiveMin |-> imin,
      InclusiveMax |-> imax, Boost |-> b] :
        lo \in {Nil, [val |-> 1]}, hi \in {Nil, [val |-> 5]},
        imin \in BOOLEAN, imax \in BOOLEAN, b \in Boosts}

Dates == {"", "2024-01-01T00:00:00Z", "2024-12-31T23:59:59Z", "yesterday",
          "01/02/2024"}

DateRangeQueries ==
    {[Field |-> "created_at", Start |-> st, End |-> en, InclusiveStart |-> ist,
      InclusiveEnd |-> ien, Boost |-> b] :
        st \in Dates, en \in Dates, ist \in BOOLEAN, ien \in BOOLEAN, b \in Boosts}

BoolQuery(must, should, mustNot, minShould, boost) ==
    [Must |-> must, Should |-> should, MustNot |-> mustNot,
     MinimumShouldMatch |-> minShould, Boost |-> boost]

\* Clauses with one variant populated and no children.
Leaves ==
    {Clause("Match", m) : m \in MatchQueries}
    \cup {Clause("MatchPhrase", m) : m \in MatchPhraseQueries}
    \cup {Clause("Vector", v) : v \in VectorQueries}
    \cup {Clause("Term", t) : t \in TermQueries}
    \cup {Clause("QueryString", qs) : qs \in QueryStringQueries}
    \cup {Clause("Prefix", pq) : pq \in PrefixQueries}
    \cup {Clause("Wildcard", w) : w \in WildcardQueries}
    \cup {Clause("NumericRange", n) : n \in NumericRangeQueries}
    \cup {Clause("DateRange", d) : d \in DateRangeQueries}

TermLeaf == Clause("Term", [Field |-> "status", Value |-> "draft", Boost |-> 0])

TextVectorLeaf ==
    Clause("Vector", [Field |-> "embedding", Text |-> "life", Vector |-> NilSlice,
                      Model |-> "all-minilm", K |-> 5, Boost |-> 2])

RawVectorLeaf ==
    Clause("Vector", [Field |-> "embedding", Text |-> "", Vector |-> Slice(<<1, 2>>),
                      Model |-> "all-minilm", K |-> 5, Boost |-> 0])

NoInputVectorLeaf ==
    Clause("Vector", [Field |-> "embedding", Text |-> "", Vector |-> NilSlice,
                      Model |-> "all-minilm", K |-> 5, Boost |-> 0])

BadOperatorLeaf ==
    Clause("Match", [Field |-> "content", Value |-> "fox", Boost |-> 0,
                     Operator |-> "xor", Fuzziness |-> 0, PrefixLength |-> 0])

\* A representative of each variant, for the clauses with several variants.
Representative ==
    [v \in Variants |->
        CASE v = "Match" ->
               [Field |-> "content", Value |-> "fox", Boost |-> 0, Operator |-> "",
                Fuzziness |-> 0, PrefixLength |-> 0]
          [] v = "MatchPhrase" ->
               [Field |-> "content", Value |-> "quick brown fox", Boost |-> 0, Slop |-> 0]
          [] v = "Vector" -> RawVectorLeaf.Vector
          [] v = "Bool" -> BoolQuery(<<TermLeaf>>, <<>>, <<>>, 0, 0)
          [] v = "Term" -> TermLeaf.Term
          [] v = "QueryString" -> [Query |-> "+fox -dog", DefaultField |-> "", Boost |-> 0]
          [] v = "Prefix" -> [Field |-> "content", Value |-> "qui", Boost |-> 0]
          [] v = "Wildcard" -> [Field |-> "content", Value |-> "f*x", Boost |-> 0]
          [] v = "NumericRange" ->
               [Field |-> "price", Min |-> [val |-> 1], Max |-> Nil,
                InclusiveMin |-> FALSE, InclusiveMax |-> FALSE, Boost |-> 0]
          [] OTHER ->
               [Field |-> "created_at", Start |-> "2024-01-01T00:00:00Z",
                End |-> "2024-12-31T23:59:59Z",
                InclusiveStart |-> FALSE, InclusiveEnd |-> FALSE, Boost |-> 0]]

\* Clauses with two or more variants populated.
Populated(S, v) == IF v \in S THEN Representative[v] ELSE Nil

MultiClauses ==
    {[Match |-> Populated(S, "Match"), MatchPhrase |-> Populated(S, "MatchPhrase"),
      Vector |-> Populated(S, "Vector"), Bool |-> Populated(S, "Bool"),
      Term |-> Populated(S, "Term"), QueryString |-> Populated(S, "QueryString"),
      Prefix |-> Populated(S, "Prefix"), Wildcard |-> Populated(S, "Wildcard"),
      NumericRange |-> Populated(S, "NumericRange"),
      DateRange |-> Populated(S, "DateRange")] :
        S \in {T \in SUBSET Variants : Cardinality(T) >= 2}}

\* Clauses that populate a Vector clause with text, in themselves or in a
\* child, together with a variant that BuildBleveQuery tests before it.
HiddenVectorClauses ==
    {[EmptyClause EXCEPT !.Match = Representative["Match"],
                         !.Vector = TextVectorLeaf.Vector],
     [EmptyClause EXCEPT !.Match = Representative["Match"],
                         !.Bool = BoolQuery(<<TextVectorLeaf>>, <<>>, <<>>, 0, 0)],
     [EmptyClause EXCEPT !.Vector = RawVectorLeaf.Vector,
                         !.Bool = BoolQuery(<<TermLeaf>>, <<TextVectorLeaf>>, <<>>, 0, 0)]}

\* The children of Boolean clauses: leaves that compile, leaves that fail
\* (each with an error of its own) and nested Boolean clauses, whose
\* children are the grandchildren of the request's root.
ChildLeaves ==
    {TermLeaf, TextVectorLeaf, RawVectorLeaf, EmptyClause, NoInputVectorLeaf}

NestedBools ==
    {Clause("Bool", BoolQuery(<<TermLeaf>>, <<>>, <<>>, 0, 0)),
     Clause("Bool", BoolQuery(<<EmptyClause>>, <<>>, <<>>, 0, 0)),
     Clause("Bool", BoolQuery(<<>>, <<RawVectorLeaf>>, <<>>, 0, 0)),
     Clause("Bool", BoolQuery(<<>>, <<>>, <<NoInputVectorLeaf>>, 0, 0)),
     Clause("Bool", BoolQuery(<<TextVectorLeaf>>, <<NoInputVectorLeaf>>,
                              <<EmptyClause>>, 1, 2))}

Children == ChildLeaves \cup NestedBools

\* The children of a root Boolean clause, in the order must, should,
\* must_not, and where the should and the must_not lists start in them.
ChildLists == UNION {[1..n -> Children] : n \in 0..MaxChildren}

Cuts == {c \in (0..MaxChildren) \X (0..MaxChildren) : c[1] <= c[2]}

\* minimum_should_match and boost of a root Boolean clause.
BoolAttributes == {<<0, 0>>, <<1, 2>>, <<-1, 0>>}

BoolClauses ==
    {Clause("Bool", BoolQuery(SubSeq(x[1], 1, x[2][1]),
                              SubSeq(x[1], x[2][1] + 1, x[2][2]),
                              SubSeq(x[1], x[2][2] + 1, Len(x[1])),
                              x[3][1], x[3][2])) :
        x \in {y \in ChildLists \X Cuts \X BoolAttributes : y[2][2] <= Len(y[1])}}

SortOptions == {[Field |-> f, Desc |-> d] : f \in {"_score", "created_at"}, d \in BOOLEAN}

SortLists == UNION {[1..n -> SortOptions] : n \in 0..MaxSort}

SearchOptionsSet ==
    {[Size |-> sz, From |-> fr, Explain |-> ex, Fields |-> fl, Sort |-> so,
      Highlight |-> hl] :
        sz \in {-1, 0, 20}, fr \in {0, 5}, ex \in BOOLEAN,
        fl \in {NilSlice, Slice(<<"content">>)}, so \in SortLists,
        hl \in {Nil, [Style |-> "html", Fields |-> Slice(<<>>)]}}

\* The decoded requests, by class: a leaf clause, a clause with several
\* variants or none, a Boolean clause, and a request with options.
RequestClasses == {"leaf", "multi", "bool", "options"}

SearchRequests(class) ==
    CASE class = "leaf" -> {[Query |-> q, Options |-> Nil] : q \in Leaves}
      [] class = "multi" ->
           {[Query |-> q, Options |-> Nil] :
               q \in MultiClauses \cup HiddenVectorClauses \cup {EmptyClause}}
      [] class = "bool" -> {[Query |-> q, Options |-> Nil] : q \in BoolClauses}
      [] OTHER ->
           {[Query |-> q, Options |-> o] :
               q \in {TermLeaf, RawVectorLeaf, EmptyClause}, o \in SearchOptionsSet}

\* The number of Vector clauses with text in a clause tree: no compilation
\* calls the provider more often.
RECURSIVE TextVectors(_)
RECURSIVE TextVectorsIn(_, _)
TextVectorsIn(children, i) ==
    IF i > Len(children) THEN 0
    ELSE TextVectors(children[i]) + TextVectorsIn(children, i + 1)

TextVectors(q) ==
    (IF q.Vector # Nil /\ q.Vector.Text # "" THEN 1 ELSE 0)
    + (IF q.Bool # Nil
       THEN TextVectorsIn(q.Bool.Must, 1) + TextVectorsIn(q.Bool.Should, 1)
            + TextVectorsIn(q.Bool.MustNot, 1)
       ELSE 0)

(***************************************************************************)
(* The server.  pc is "idle" while the server waits for a request and     *)
(* "responded" when a handler has run.  The other variables are what that  *)
(* handler did: the body it read, the request it decoded from the body,    *)
(* what BuildBleveQuery returned, the                                      *)
(* requests the embeddings client sent, the clauses BuildBleveQuery was    *)
(* called on, the requests submitted to the engine and the HTTP response.  *)
(***************************************************************************)
VARIABLES pc, yamlBody, searchReq, built, embedLog, visited, engineLog, response

serverVars == <<pc, yamlBody, searchReq, built, embedLog, visited, engineLog, response>>

\* A caller of the package's two functions outside the server: the clause
\* tree, the options and the engine request it holds, as they are after the
\* calls it has made, and the calls it has made, each with the values the
\* caller held before it and the result it returned.
VARIABLES callClause, callOptions, callRequest, callHistory

callVars == <<callClause, callOptions, callRequest, callHistory>>

\* Request handlers that compile concurrently: the embeddings client the
\* package holds, which they share, and each handler's clause, options,
\* provider answers, the embedding calls it has made and, once it has
\* finished, its result.
VARIABLES client, handlers

concVars == <<client, handlers>>

vars == <<serverVars, callVars, concVars>>

\* The HTTP requests: the method and what the body decodes to.
BadRequests ==
    {[Method |-> "GET", Body |-> [kind |-> "unreadable"]],
     [Method |-> "POST", Body |-> [kind |-> "unreadable"]],
     [Method |-> "POST", Body |-> [kind |-> "malformed"]]}

\* The id lists of the doc_id clauses of the model.
IDLists == {<<>>, <<"doc1">>, <<"doc2", "doc1">>}

\* A body that is a YAML document has the part of the document the fields
\* of query.SearchRequest name (doc) and the keys of the document's query
\* mapping that no field of QueryDSL names, with their values (extra).
DocIDRequests ==
    {[Method |-> "POST",
      Body |-> [kind |-> "yaml", doc |-> [Query |-> EmptyClause, Options |-> Nil],
                extra |-> [doc_id |-> [ids |-> ids]]]] : ids \in IDLists}

HTTPRequests(class) ==
    IF class = "bad" THEN BadRequests
    ELSE IF class = "doc_id" THEN DocIDRequests
    ELSE {[Method |-> "POST", Body |-> [kind |-> "yaml", doc |-> sr, extra |-> Nil]] :
             sr \in SearchRequests(class)}

\* yaml.Unmarshal into a query.SearchRequest: the keys of the document that
\* no field of the struct names are dropped without an error.
Unmarshal(body) == body.doc

HTTPError(msg, err, status) == [status |-> status, msg |-> msg, err |-> err]

\* What the server does with a handler that panics: the connection is
\* closed and no response is written.
NoResponse == [status |-> 0, msg |-> "", err |-> Nil]

NewEnv(outcome) == [outcome |-> outcome, calls |-> <<>>, visited |-> <<>>]

EngineOutcomes == {"ok", "error"}

\* index.Search: the engine's answer to a request is its result or an error.
Search(searchRequest, engineOutcome) ==
    IF engineOutcome = "error"
    THEN [result |-> Nil, err |-> Errorf("engine", NoArg, Nil)]
    ELSE [result |-> [hits |-> searchRequest.Query.kind], err |-> Nil]

Init ==
    /\ pc = "idle"
    /\ yamlBody = Nil
    /\ searchReq = Nil
    /\ built = Nil
    /\ embedLog = <<>>
    /\ visited = <<>>
    /\ engineLog = <<>>
    /\ response = Nil
    /\ callClause = Nil
    /\ callOptions = Nil
    /\ callRequest = Nil
    /\ callHistory = <<>>
    /\ client = embeddingsClient
    /\ handlers = <<>>

\* The part of handleSearch after the request has been decoded.
SearchDecoded(doc, outcome) ==
    LET b == BuildBleveQuery(doc.Query, <<>>, NewEnv(outcome))
        searchRequest == ApplySearchOptions(NewSearchRequest(b.query), doc.Options)
    IN  /\ searchReq' = doc
        /\ built' = [query |-> b.query, err |-> b.err, panic |-> b.panic]
        /\ embedLog' = b.env.calls
        /\ visited' = b.env.visited
        /\ IF b.panic
           THEN engineLog' = <<>> /\ response' = NoResponse
           ELSE IF b.err # Nil
           THEN /\ engineLog' = <<>>
                /\ response' = HTTPError("Failed to build query", b.err, 400)
           ELSE \E engineOutcome \in EngineOutcomes :
                  LET found == Search(searchRequest, engineOutcome)
                  IN  /\ engineLog' = <<searchRequest>>
                      /\ response' =
                           IF found.err # Nil
                           THEN HTTPError("Search failed", found.err, 500)
                           ELSE [status |-> 200, msg |-> "", err |-> Nil]

HandleSearch(r, outcome) ==
    /\ pc' = "responded"
    /\ yamlBody' = r.Body
    /\ IF r.Method # "POST" \/ r.Body.kind # "yaml"
       THEN /\ searchReq' = Nil
            /\ built' = Nil
            /\ embedLog' = <<>>
            /\ visited' = <<>>
            /\ engineLog' = <<>>
            /\ response' =
                 IF r.Method # "POST" THEN HTTPError("Method not allowed", Nil, 405)
                 ELSE IF r.Body.kind = "unreadable"
                 THEN HTTPError("Failed to read request body", Nil, 400)
                 ELSE HTTPError("Failed to parse YAML", Errorf("yaml", NoArg, Nil), 400)
       ELSE SearchDecoded(Unmarshal(r.Body), outcome)

Outcomes(r) ==
    IF r.Method = "POST" /\ r.Body.kind = "yaml"
    THEN [1..TextVectors(r.Body.doc.Query) -> EmbedOutcomes]
    ELSE {<<>>}

ListSize == 1000

HandleListDocuments(method) ==
    LET searchRequest == [NewSearchRequest(NewMatchAllQuery) EXCEPT
                             !.Fields = Slice(<<"*">>), !.Size = ListSize]
    IN  /\ pc' = "responded"
        /\ yamlBody' = Nil
        /\ searchReq' = Nil
        /\ built' = Nil
        /\ embedLog' = <<>>
        /\ visited' = <<>>
        /\ IF method # "GET"
           THEN /\ engineLog' = <<>>
                /\ response' = HTTPError("Method not allowed", Nil, 405)
           ELSE \E engineOutcome \in EngineOutcomes :
                  LET found == Search(searchRequest, engineOutcome)
                  IN  /\ engineLog' = <<searchRequest>>
                      /\ response' =
                           IF found.err # Nil
                           THEN HTTPError("Failed to list documents", found.err, 500)
                           ELSE [status |-> 200, msg |-> "", err |-> Nil]

\* The handler has returned: the server waits for the next request.
Served ==
    /\ pc = "responded"
    /\ pc' = "idle"
    /\ yamlBody' = Nil
    /\ searchReq' = Nil
    /\ built' = Nil
    /\ embedLog' = <<>>
    /\ visited' = <<>>
    /\ engineLog' = <<>>
    /\ response' = Nil
    /\ UNCHANGED <<callVars, concVars>>

\* A request arrives at /search while the server is idle.
PostSearch ==
    /\ pc = "idle"
    /\ \E class \in RequestClasses \cup {"bad", "doc_id"} : \E r \in HTTPRequests(class) :
          \E outcome \in Outcomes(r) : HandleSearch(r, outcome)
    /\ UNCHANGED <<callVars, concVars>>

\* A request arrives at /documents while the server is idle.
GetDocuments ==
    /\ pc = "idle"
    /\ \E method \in {"GET", "POST"} : HandleListDocuments(method)
    /\ UNCHANGED <<callVars, concVars>>

Next == PostSearch \/ GetDocuments \/ Served

Spec == Init /\ [][Next]_vars

(***************************************************************************)
(* The two functions called outside the server, on any request and in any  *)
(* order.  The clause tree, the options and the request are the caller's:  *)
(* BuildBleveQuery receives the clause by value with its pointers shared,  *)
(* ApplySearchOptions receives pointers to the request and the options.    *)
(***************************************************************************)
\* The largest number of calls the caller makes.
MaxCalls == 2

\* BuildBleveQuery clearing the clause it could not compile.
AfterBuildBleveQueryClearingFailed(q, env) ==
    LET b == BuildBleveQuery(q, <<>>, env)
    IN  [q |-> IF Failed(b) THEN EmptyClause ELSE q, result |-> b]

\* The clause after a call of BuildBleveQuery on it, and what the call
\* returned: no branch assigns to the clause or through its pointers.
AfterBuildBleveQuery(q, env) ==
    [q |-> q, result |-> BuildBleveQuery(q, <<>>, env)]

\* The request and the options after a call of ApplySearchOptions: the
\* function assigns to fields of the request only.
AfterApplySearchOptions(searchRequest, options) ==
    [searchRequest |-> ApplySearchOptions(searchRequest, options), options |-> options]

\* The requests the caller holds before its first call: a new request and
\* one whose attributes have all been set.
CustomRequest ==
    [Query |-> NewTermQuery("draft"), Size |-> 50, From |-> 3,
     Highlight |-> [NewHighlight EXCEPT !.Fields = Slice(<<"title">>)],
     Fields |-> Slice(<<"title">>), Explain |-> TRUE, Sort |-> <<"title">>,
     KNN |-> <<>>]

CallRequests == {NewSearchRequest(NewMatchAllQuery), CustomRequest}

CallClauses ==
    {TermLeaf, BadOperatorLeaf, EmptyClause,
     Clause("Bool", BoolQuery(<<TermLeaf>>, <<RawVectorLeaf>>, <<EmptyClause>>, 1, 2)),
     Clause("DateRange", [Field |-> "created_at", Start |-> "", End |-> "",
                          InclusiveStart |-> FALSE, InclusiveEnd |-> FALSE,
                          Boost |-> 0])}

CallInit ==
    /\ pc = "idle"
    /\ yamlBody = Nil
    /\ searchReq = Nil
    /\ built = Nil
    /\ embedLog = <<>>
    /\ visited = <<>>
    /\ engineLog = <<>>
    /\ response = Nil
    /\ callHistory = <<>>
    /\ client = embeddingsClient
    /\ handlers = <<>>
    /\ \/ /\ callClause \in CallClauses
          /\ callOptions = Nil
          /\ callRequest = NewSearchRequest(NewMatchAllQuery)
       \/ /\ callClause \in {TermLeaf, BadOperatorLeaf}
          /\ callOptions \in SearchOptionsSet \cup {Nil}
          /\ callRequest \in CallRequests

Held == [clause |-> callClause, options |-> callOptions, request |-> callRequest]

\* The caller calls BuildBleveQuery on its clause.
CallBuildBleveQuery ==
    /\ Len(callHistory) < MaxCalls
    /\ LET a == AfterBuildBleveQuery(callClause, NewEnv(<<>>))
       IN  /\ callClause' = a.q
           /\ callHistory' =
                 Append(callHistory,
                        [op |-> "BuildBleveQuery", before |-> Held,
                         after |-> [Held EXCEPT !.clause = a.q],
                         result |-> [query |-> a.result.query, err |-> a.result.err,
                                     panic |-> a.result.panic]])
    /\ UNCHANGED <<callOptions, callRequest, serverVars, concVars>>

\* The caller calls ApplySearchOptions on its request, with its options.
CallApplySearchOptions ==
    /\ Len(callHistory) < MaxCalls
    /\ LET a == AfterApplySearchOptions(callRequest, callOptions)
       IN  /\ callRequest' = a.searchRequest
           /\ callOptions' = a.options
           /\ callHistory' =
                 Append(callHistory,
                        [op |-> "ApplySearchOptions", before |-> Held,
                         after |-> [Held EXCEPT !.request = a.searchRequest,
                                                !.options = a.options],
                         result |-> Nil])
    /\ UNCHANGED <<callClause, serverVars, concVars>>

CallNext == CallBuildBleveQuery \/ CallApplySearchOptions

CallSpec == CallInit /\ [][CallNext]_vars

(***************************************************************************)
(* Handlers that compile concurrently.  A compilation touches the state    *)
(* the handlers share, the package's embeddings client, only in its calls  *)
(* of GenerateEmbedding; a step of a handler is one such call, with the    *)
(* compilation it does by itself before the call, or the rest of the       *)
(* handler after its last call.                                            *)
(***************************************************************************)
\* The number of handlers that run concurrently.
MaxHandlers == 2

\* GenerateEmbedding switching the client to another model once a call has
\* failed.
AfterGenerateEmbeddingSwitchingModel(c, text, env) ==
    LET g == GenerateEmbedding(c, text, env)
    IN  [c |-> IF g.err # Nil THEN [c EXCEPT !.model = "nomic-embed-text"] ELSE c,
         result |-> g]

\* The client after a call of GenerateEmbedding on it, and what the call
\* returned: the method reads c.ollamaURL and c.model and assigns to no
\* field of c.
AfterGenerateEmbedding(c, text, env) ==
    [c |-> c, result |-> GenerateEmbedding(c, text, env)]

ConcOutcomes == {"ok", "unreachable"}

PageOptions ==
    [Size |-> 20, From |-> 5, Explain |-> TRUE, Fields |-> Slice(<<"content">>),
     Sort |-> <<[Field |-> "created_at", Desc |-> TRUE]>>, Highlight |-> Nil]

TwoTextVectors ==
    Clause("Bool",
           BoolQuery(<<TextVectorLeaf>>,
                     <<Clause("Vector", [Field |-> "embedding", Text |-> "work",
                                         Vector |-> NilSlice, Model |-> "all-minilm",
                                         K |-> 5, Boost |-> 0])>>,
                     <<>>, 0, 0))

\* What a handler is given: the decoded clause and options of its request
\* and the provider's answers to its embedding calls.
ConcJobs ==
    {[clause |-> TermLeaf, options |-> o, outcome |-> <<>>] : o \in {Nil, PageOptions}}
    \cup {[clause |-> TextVectorLeaf, options |-> PageOptions, outcome |-> <<a>>] :
             a \in ConcOutcomes}
    \cup {[clause |-> TwoTextVectors, options |-> Nil, outcome |-> <<a, b>>] :
             a \in ConcOutcomes, b \in ConcOutcomes}

\* What a handler does when it runs alone: the embedding calls it makes,
\* what BuildBleveQuery returns and the request it submits to the engine.
RunAlone(job) ==
    LET b == BuildBleveQuery(job.clause, <<>>, NewEnv(job.outcome))
    IN  [query |-> b.query, err |-> b.err, panic |-> b.panic, calls |-> b.env.calls,
         vectors |-> [n \in DOMAIN b.env.calls |->
                         GenerateEmbedding(embeddingsClient, b.env.calls[n].request.Prompt,
                                           [outcome |-> job.outcome,
                                            calls |-> SubSeq(b.env.calls, 1, n - 1),
                                            visited |-> <<>>]).vector],
         request |-> IF Failed(b) THEN Nil
                     ELSE ApplySearchOptions(NewSearchRequest(b.query), job.options)]

ConcInit ==
    /\ pc = "idle"
    /\ yamlBody = Nil
    /\ searchReq = Nil
    /\ built = Nil
    /\ embedLog = <<>>
    /\ visited = <<>>
    /\ engineLog = <<>>
    /\ response = Nil
    /\ callClause = Nil
    /\ callOptions = Nil
    /\ callRequest = Nil
    /\ callHistory = <<>>
    /\ client = embeddingsClient
    /\ handlers \in [1..MaxHandlers ->
                        {[job |-> j, calls |-> <<>>, vectors |-> <<>>, result |-> Nil] :
                            j \in ConcJobs}]

\* Handler h compiles up to its next call of GenerateEmbedding and makes
\* the call on the shared client.
Embed(h) ==
    LET job == handlers[h].job
        n == Len(handlers[h].calls) + 1
    IN  /\ handlers[h].result = Nil
        /\ n <= Len(RunAlone(job).calls)
        /\ LET a == AfterGenerateEmbedding(
                       client, RunAlone(job).calls[n].request.Prompt,
                       [outcome |-> job.outcome, calls |-> handlers[h].calls,
                        visited |-> <<>>])
           IN  /\ client' = a.c
               /\ handlers' = [handlers EXCEPT
                                  ![h].calls = a.result.env.calls,
                                  ![h].vectors = Append(@, a.result.vector)]
        /\ UNCHANGED <<serverVars, callVars>>

\* Handler h has made its last call of GenerateEmbedding: it finishes the
\* compilation, applies the options and returns.  Between its calls the
\* handler works on values of its own, so what it returns is what the
\* compilation returns on the answers it received.
Finish(h) ==
    LET job == handlers[h].job
    IN  /\ handlers[h].result = Nil
        /\ Len(handlers[h].calls) = Len(RunAlone(job).calls)
        /\ handlers' = [handlers EXCEPT
                           ![h].result = [RunAlone(job) EXCEPT
                                             !.calls = handlers[h].calls,
                                             !.vectors = handlers[h].vectors]]
        /\ UNCHANGED <<client, serverVars, callVars>>

ConcNext == \E h \in DOMAIN handlers : Embed(h) \/ Finish(h)

ConcSpec == ConcInit /\ [][ConcNext]_vars

(***************************************************************************)
(* Vocabulary of the properties.                                           *)
(***************************************************************************)
\* The handler of a /search request has run on a request that decoded.
Handled == pc = "responded" /\ searchReq # Nil

PopulatedVariants(q) == {v \in Variants : q[v] # Nil}

Only(q, variant) == PopulatedVariants(q) = {variant}

\* BuildBleveQuery returned a query and no error.
Compiled == ~built.panic /\ built.err = Nil /\ built.query # Nil

\* BuildBleveQuery returned an error and no query.
Rejected == ~built.panic /\ built.err # Nil /\ built.query = Nil

ChildList(b, list) ==
    CASE list = "must" -> b.Must [] list = "should" -> b.Should [] OTHER -> b.MustNot

\* The clause at a position of a clause tree.
RECURSIVE ClauseAt(_, _)
ClauseAt(q, path) ==
    IF path = <<>> THEN q
    ELSE ClauseAt(ChildList(q.Bool, Head(path)[1])[Head(path)[2]], Tail(path))

\* The positions of a clause tree, parents before children and the lists
\* of a Boolean clause in the order must, should, must_not.
RECURSIVE Preorder(_, _)
RECURSIVE PreorderList(_, _, _, _)
PreorderList(children, list, i, path) ==
    IF i > Len(children) THEN <<>>
    ELSE Preorder(children[i], Append(path, <<list, i>>))
         \o PreorderList(children, list, i + 1, path)

Preorder(q, path) ==
    <<path>> \o (IF Only(q, "Bool")
                 THEN PreorderList(q.Bool.Must, "must", 1, path)
                      \o PreorderList(q.Bool.Should, "should", 1, path)
                      \o PreorderList(q.Bool.MustNot, "must_not", 1, path)
                 ELSE <<>>)

IsPrefix(s, t) == Len(s) <= Len(t) /\ SubSeq(t, 1, Len(s)) = s

Last(s) == s[Len(s)]

NoVariantError == Errorf("no valid query type found", NoArg, Nil)

NoVectorInputError ==
    Errorf("either text or vector must be provided for vector query", NoArg, Nil)

EmbeddingFailed(cause) == Errorf("failed to generate vector embedding", NoArg, cause)

\* A Vector clause with text, one with neither text nor vector.
TextVector(q) == Only(q, "Vector") /\ q.Vector.Text # ""

NoInputVector(q) == Only(q, "Vector") /\ q.Vector.Text = "" /\ q.Vector.Vector.isNil

Root == searchReq.Query

Empty(q) == PopulatedVariants(q) = {}

(***************************************************************************)
(* The clause union.                                                       *)
(***************************************************************************)
\* C1: a clause with two or more variants populated is rejected:
\* BuildBleveQuery returns an error and no query.
C1_SeveralVariantsRejected ==
    Handled /\ Cardinality(PopulatedVariants(Root)) >= 2 => Rejected

\* An empty clause is the root, or a child or grandchild of Boolean clauses.
RECURSIVE EmptyWithin(_)
EmptyWithin(q) ==
    \/ Empty(q)
    \/ /\ Only(q, "Bool")
       /\ \E list \in {"must", "should", "must_not"} :
             \E i \in DOMAIN ChildList(q.Bool, list) :
                EmptyWithin(ChildList(q.Bool, list)[i])

\* C2: a clause with no variant populated is rejected with an error and a
\* nil query, at the root and as a child or grandchild of a Boolean clause;
\* the compilation that reaches it ends there with the error of the empty
\* clause.
C2_NoVariantRejected ==
    Handled =>
       /\ EmptyWithin(Root) => Rejected
       /\ \A i \in DOMAIN visited :
             Empty(ClauseAt(Root, visited[i])) =>
                i = Len(visited) /\ Rejected /\ built.err = NoVariantError

W_C2_EmptyGrandchild ==
    /\ Handled
    /\ Len(visited) = 3
    /\ Len(Last(visited)) = 2
    /\ Empty(ClauseAt(Root, Last(visited)))
    /\ Rejected
    /\ built.err = NoVariantError

(***************************************************************************)
(* Vector clauses.                                                         *)
(***************************************************************************)
\* The request submitted to the engine has a k-NN request for the clause.
CarriesKNN(v, queryVector) ==
    /\ Len(engineLog) = 1
    /\ \E i \in DOMAIN engineLog[1].KNN :
          /\ engineLog[1].KNN[i].Field = v.Field
          /\ engineLog[1].KNN[i].Vector = queryVector
          /\ engineLog[1].KNN[i].K = v.K
          /\ engineLog[1].KNN[i].Boost = v.Boost

\* C3: when the root clause of a /search request is a Vector clause that
\* compiles, the request submitted to the engine carries a k-NN request
\* with the clause's field, query vector, k and boost.
C3_RootVectorCarriesKNN ==
    Handled /\ Only(Root, "Vector") /\ Compiled =>
       CarriesKNN(Root.Vector,
                  IF Root.Vector.Text # ""
                  THEN EmbeddingOf(embedLog[1].request.Model, Root.Vector.Text)
                  ELSE Root.Vector.Vector)

QueryGroup(query, list) ==
    CASE list = "must" -> query.Must [] list = "should" -> query.Should
      [] OTHER -> query.MustNot

\* C4: a Vector clause that is a direct child in must or should of a
\* Boolean clause is attached to the request as a k-NN request and is no
\* member of the must or should group of the boolean query.
C4_ChildVectorHoisted ==
    Handled /\ Only(Root, "Bool") /\ Compiled =>
       \A list \in {"must", "should"} :
          LET children == ChildList(Root.Bool, list)
              vectors  == {i \in DOMAIN children : Only(children[i], "Vector")}
          IN  /\ Len(QueryGroup(built.query, list)) = Len(children) - Cardinality(vectors)
              /\ \A i \in vectors :
                    /\ Len(engineLog) = 1
                    /\ \E k \in DOMAIN engineLog[1].KNN :
                          /\ engineLog[1].KNN[k].Field = children[i].Vector.Field
                          /\ engineLog[1].KNN[k].K = children[i].Vector.K
                          /\ engineLog[1].KNN[k].Boost = children[i].Vector.Boost

\* C5: compiling a Vector clause with text calls the embeddings client once,
\* with that text; when a call of the client fails, BuildBleveQuery fails
\* with an error that wraps the call's error and the handler does not call
\* the engine's Search.
C5_TextVectorEmbedsOnce ==
    Handled =>
       /\ TextVector(Root) =>
             Len(embedLog) = 1 /\ embedLog[1].request.Prompt = Root.Vector.Text
       /\ \A i \in DOMAIN embedLog :
             embedLog[i].err # Nil =>
                /\ Rejected
                /\ built.err = EmbeddingFailed(embedLog[i].err)
                /\ engineLog = <<>>

W_C5_EmbeddingFailed ==
    /\ Handled
    /\ TextVector(Root)
    /\ Len(embedLog) = 1
    /\ embedLog[1].err # Nil
    /\ built.err = EmbeddingFailed(embedLog[1].err)
    /\ engineLog = <<>>
    /\ response.status = 400

\* C6: a Vector clause with both text and vector is rejected, and the
\* embeddings client is not called.
C6_TextAndVectorRejected ==
    Handled /\ Only(Root, "Vector") /\ Root.Vector.Text # ""
            /\ ~Root.Vector.Vector.isNil =>
       Rejected /\ embedLog = <<>>

\* The calls of the embeddings client are those of the Vector clauses with
\* text that BuildBleveQuery was called on.
VisitedTextVectors ==
    Cardinality({i \in DOMAIN visited : TextVector(ClauseAt(Root, visited[i]))})

\* C7: a Vector clause with neither text nor vector is rejected with an
\* error, at the root and inside Boolean clauses, and no call of the
\* embeddings client is made for it.
C7_NoVectorInputRejected ==
    Handled =>
       /\ NoInputVector(Root) => embedLog = <<>>
       /\ \A i \in DOMAIN visited :
             NoInputVector(ClauseAt(Root, visited[i])) =>
                /\ i = Len(visited)
                /\ Rejected
                /\ built.err = NoVectorInputError
                /\ Len(embedLog) = VisitedTextVectors

W_C7_NoVectorInput ==
    /\ Handled
    /\ NoInputVector(Root)
    /\ Rejected
    /\ built.err = NoVectorInputError
    /\ embedLog = <<>>
    /\ response.status = 400

\* C8: a Vector clause with k = 0 or k < 0 is rejected, with text and with
\* a vector.
C8_NonPositiveKRejected ==
    Handled /\ Only(Root, "Vector") /\ Root.Vector.K <= 0 => Rejected

\* C9: the model sent to the embedding provider for a Vector clause with
\* text is the model the clause names.
C9_ClauseModelSent ==
    Handled /\ TextVector(Root) =>
       \A i \in DOMAIN embedLog : embedLog[i].request.Model = Root.Vector.Model

(***************************************************************************)
(* Boolean clauses.                                                        *)
(***************************************************************************)
\* The error of a clause that fails by itself, given the last call of the
\* embeddings client.
OwnError(q) ==
    IF Empty(q) THEN NoVariantError
    ELSE IF NoInputVector(q) THEN NoVectorInputError
    ELSE IF TextVector(q) /\ embedLog # <<>> /\ Last(embedLog).err # Nil
    THEN EmbeddingFailed(Last(embedLog).err)
    ELSE Nil

\* C10: a Boolean clause compiles its children in the order must, should,
\* must_not, nested Boolean clauses included; when a child or grandchild
\* fails, it is the first in this order that fails, its error is returned
\* as it is, and no clause after it is compiled.
C10_BoolFailsFast ==
    Handled /\ Only(Root, "Bool") =>
       /\ IsPrefix(visited, Preorder(Root, <<>>))
       /\ Compiled => visited = Preorder(Root, <<>>)
       /\ built.err # Nil =>
             /\ built.err = OwnError(ClauseAt(Root, Last(visited)))
             /\ \A i \in 1..(Len(visited) - 1) :
                   /\ ~Empty(ClauseAt(Root, visited[i]))
                   /\ ~NoInputVector(ClauseAt(Root, visited[i]))
             /\ \A j \in 1..(Len(embedLog) - 1) : embedLog[j].err = Nil

W_C10_GrandchildFailsFirst ==
    /\ Handled
    /\ Only(Root, "Bool")
    /\ Len(Last(visited)) = 2
    /\ Last(visited)[1][1] = "should"
    /\ Len(Root.Bool.Must) > 0
    /\ Len(visited) < Len(Preorder(Root, <<>>))
    /\ built.err = OwnError(ClauseAt(Root, Last(visited)))
    /\ built.err # Nil

\* The child of the root Boolean clause whose failure ended a compilation:
\* its list, its index in the list and its clause kind.
FailingChild(q, calls) ==
    [list |-> Last(calls)[1][1], index |-> Last(calls)[1][2],
     kind |-> PopulatedVariants(ClauseAt(q, <<Last(calls)[1]>>))]

\* Boolean clauses whose compilation fails at a known child.
FailingBools ==
    {Clause("Bool", BoolQuery(<<EmptyClause>>, <<>>, <<>>, 0, 0)),
     Clause("Bool", BoolQuery(<<TermLeaf, EmptyClause>>, <<>>, <<>>, 0, 0)),
     Clause("Bool", BoolQuery(<<>>, <<EmptyClause>>, <<>>, 0, 0)),
     Clause("Bool", BoolQuery(<<NoInputVectorLeaf>>, <<>>, <<>>, 0, 0))}

\* C11: when a child of a Boolean clause fails to compile, the error the
\* Boolean compilation returns identifies the failing child, its index in
\* its list and its clause kind: two compilations that return the same error
\* failed at a child with the same list, index and kind.
C11_ErrorIdentifiesChild ==
    Handled /\ Only(Root, "Bool") /\ Rejected =>
       \A q \in FailingBools :
          LET r == BuildBleveQuery(q, <<>>, NewEnv(<<>>))
          IN  r.err = built.err =>
                 FailingChild(q, r.env.visited) = FailingChild(Root, visited)

\* C12: a Boolean clause whose children all compile yields a boolean query
\* whose must, should and must_not groups hold the compiled children in
\* input order, as many as the input lists hold; its minimum-should-match is
\* the clause's when that is positive and the engine's default otherwise,
\* and its boost is the clause's when that is non-zero and the engine's
\* default otherwise.
C12_BoolGroupsInOrder ==
    Handled /\ Only(Root, "Bool") /\ Compiled =>
       /\ built.query.kind = "bool"
       /\ \A list \in {"must", "should", "must_not"} :
             LET children == ChildList(Root.Bool, list)
                 group    == QueryGroup(built.query, list)
             IN  /\ Len(group) = Len(children)
                 /\ \A i \in DOMAIN children :
                       group[i] = BuildBleveQuery(children[i], <<>>, NewEnv(<<>>)).query
       /\ built.query.MinShould =
             IF Root.Bool.MinimumShouldMatch > 0 THEN Root.Bool.MinimumShouldMatch
             ELSE NewBooleanQuery.MinShould
       /\ built.query.BoostVal =
             IF Root.Bool.Boost # 0 THEN [isSet |-> TRUE, val |-> Root.Bool.Boost]
             ELSE DefaultBoost

W_C12_MustAndMustNot ==
    /\ Handled
    /\ Only(Root, "Bool")
    /\ Compiled
    /\ Len(Root.Bool.Must) = 1 /\ Root.Bool.Should = <<>> /\ Len(Root.Bool.MustNot) = 1
    /\ Root.Bool.MinimumShouldMatch = 0
    /\ Len(built.query.Must) = 1 /\ built.query.Should = <<>>
    /\ Len(built.query.MustNot) = 1
    /\ built.query.Must[1].kind = "term" /\ built.query.MustNot[1].kind = "bool"
    /\ built.query.MinShould = NewBooleanQuery.MinShould

(***************************************************************************)
(* Term-level and text clauses.                                            *)
(***************************************************************************)
SimpleVariants == {"Match", "MatchPhrase", "Term", "Prefix", "Wildcard"}

\* The kind of engine query each of these variants corresponds to.
KindOfVariant ==
    [Match |-> "match", MatchPhrase |-> "match_phrase", Term |-> "term",
     Prefix |-> "prefix", Wildcard |-> "wildcard"]

\* The text an engine query searches for.
QueryValue(query) ==
    CASE query.kind = "match" -> query.Match
      [] query.kind = "match_phrase" -> query.MatchPhrase
      [] query.kind = "term" -> query.Term
      [] query.kind = "prefix" -> query.Prefix
      [] query.kind = "wildcard" -> query.Wildcard
      [] OTHER -> Nil

\* The attributes of a Match clause are valid: the operator is absent or
\* one of the literal strings, fuzziness and prefix_length are not negative.
ValidMatch(m) ==
    m.Operator \in {"", "and", "or"} /\ m.Fuzziness >= 0 /\ m.PrefixLength >= 0

\* C13: a clause with exactly one of Match, MatchPhrase, Term, Prefix or
\* Wildcard populated, with valid attributes, compiles without error to a
\* query of the corresponding kind with the clause's field and value; the
\* query's boost is the clause's when that is non-zero and the engine's
\* default, which is not zero, when the clause's boost is 0.
C13_SimpleClauseCompiles ==
    \A v \in SimpleVariants :
       Handled /\ Only(Root, v) /\ (v = "Match" => ValidMatch(Root.Match)) =>
          /\ Compiled
          /\ built.query.kind = KindOfVariant[v]
          /\ built.query.FieldVal = Root[v].Field
          /\ QueryValue(built.query) = Root[v].Value
          /\ built.query.BoostVal.val =
                IF Root[v].Boost # 0 THEN Root[v].Boost ELSE DefaultBoost.val
          /\ built.query.BoostVal.val # 0

W_C13_MatchRoundTrip ==
    /\ Handled
    /\ Only(Root, "Match")
    /\ Root.Match.Field = "content" /\ Root.Match.Value = "fox"
    /\ Root.Match.Boost = 2 /\ Root.Match.Operator = ""
    /\ Compiled
    /\ built.query.kind = "match"
    /\ built.query.FieldVal = "content" /\ built.query.Match = "fox"
    /\ built.query.BoostVal.val = 2
    /\ built.query.Operator = NewMatchQuery("fox").Operator

InvalidOperatorError(operator) ==
    Errorf("invalid operator, must be 'and' or 'or'", [val |-> operator], Nil)

\* C14: a Match clause whose operator is set to anything but the literal
\* string "and" or "or", "AND" included, is rejected; "and" and "or" select
\* the engine's AND and OR modes.
C14_OperatorLiteral ==
    Handled /\ Only(Root, "Match") =>
       /\ Root.Match.Operator \notin {"", "and", "or"} => Rejected
       /\ Root.Match.Operator \in {"and", "or"} /\ Compiled =>
             built.query.Operator = Root.Match.Operator

\* The spellings of the two operators in the letter cases of the model.
AndSpellings == {"and", "AND", "And"}

OrSpellings == {"or", "OR"}

\* C14, amended: a Match clause whose operator is set and is no spelling of
\* "and" or "or" in any letter case is rejected with the invalid operator
\* error naming the operator; a clause whose operator is a spelling of
\* "and" or of "or" in any letter case and that compiles selects the
\* engine's AND or OR mode.
C14_OperatorAnyCase ==
    Handled /\ Only(Root, "Match") /\ Root.Match.Operator # "" =>
       /\ Root.Match.Operator \notin AndSpellings \cup OrSpellings =>
             Rejected /\ built.err = InvalidOperatorError(Root.Match.Operator)
       /\ Root.Match.Operator \in AndSpellings \cup OrSpellings =>
             /\ built.err # InvalidOperatorError(Root.Match.Operator)
             /\ Root.Match.Fuzziness >= 0 /\ Root.Match.PrefixLength >= 0 => Compiled
             /\ Compiled =>
                   built.query.Operator =
                      IF Root.Match.Operator \in AndSpellings THEN "and" ELSE "or"

W_C14_UpperCaseAnd ==
    /\ Handled
    /\ Only(Root, "Match")
    /\ Root.Match.Operator = "AND"
    /\ Compiled
    /\ built.query.Operator = "and"

FuzzinessError(fuzziness) ==
    Errorf("fuzziness must be non-negative", [val |-> fuzziness], Nil)

PrefixLengthError(prefixLength) ==
    Errorf("prefix_length must be non-negative", [val |-> prefixLength], Nil)

\* C15: a Match clause with fuzziness < 0 or prefix_length < 0 is rejected
\* with an error and no query, the error of fuzziness when the operator is
\* accepted and fuzziness is negative, that of prefix_length when only
\* prefix_length is negative; with both values >= 0 and a valid operator the
\* clause compiles and the query carries the two values.
C15_NegativeParameterRejected ==
    Handled /\ Only(Root, "Match") =>
       LET m == Root.Match
           accepted == m.Operator \in {""} \cup AndSpellings \cup OrSpellings
       IN  /\ m.Fuzziness < 0 \/ m.PrefixLength < 0 => Rejected
           /\ accepted /\ m.Fuzziness < 0 => built.err = FuzzinessError(m.Fuzziness)
           /\ accepted /\ m.Fuzziness >= 0 /\ m.PrefixLength < 0 =>
                 built.err = PrefixLengthError(m.PrefixLength)
           /\ m.Fuzziness >= 0 /\ m.PrefixLength >= 0
                 /\ m.Operator \in {"", "and", "or"} =>
                 /\ Compiled
                 /\ built.query.Fuzziness = m.Fuzziness
                 /\ built.query.Prefix = m.PrefixLength

W_C15_NegativePrefixLength ==
    /\ Handled
    /\ Only(Root, "Match")
    /\ Root.Match.Operator = "and"
    /\ Root.Match.Fuzziness = 1
    /\ Root.Match.PrefixLength = -1
    /\ Rejected
    /\ built.err = PrefixLengthError(-1)
    /\ response.status = 400

\* C16: a MatchPhrase clause with slop n > 0 compiles to a phrase query
\* that carries slop n.
C16_PhraseCarriesSlop ==
    Handled /\ Only(Root, "MatchPhrase") /\ Root.MatchPhrase.Slop > 0 =>
       /\ Compiled
       /\ built.query.kind = "match_phrase"
       /\ built.query.Slop = Root.MatchPhrase.Slop

(***************************************************************************)
(* Range clauses.                                                          *)
(***************************************************************************)
NoBounds(q) ==
    \/ Only(q, "NumericRange") /\ q.NumericRange.Min = Nil /\ q.NumericRange.Max = Nil
    \/ Only(q, "DateRange") /\ q.DateRange.Start = "" /\ q.DateRange.End = ""

\* C17: a NumericRange clause with neither min nor max and a DateRange
\* clause with neither start nor end are rejected with an error returned to
\* the caller: the compilation returns no query and does not panic.
C17_EmptyRangeRejected ==
    Handled /\ NoBounds(Root) => Rejected

ValidDate(s) == s # "" /\ ParseRFC3339(s).err = Nil

OneSided(d) ==
    \/ ValidDate(d.Start) /\ d.End = ""
    \/ d.Start = "" /\ ValidDate(d.End)

\* C18: a DateRange clause with exactly one of start and end set, to a
\* valid RFC-3339 timestamp, compiles without error and without a panic to
\* a date range query bounded on that side only.
C18_OneSidedDateRangeCompiles ==
    Handled /\ Only(Root, "DateRange") /\ OneSided(Root.DateRange) =>
       /\ ~built.panic
       /\ Compiled
       /\ built.query.kind = "date_range"
       /\ Root.DateRange.Start = "" <=> built.query.Start = Nil
       /\ Root.DateRange.End = "" <=> built.query.End = Nil

InvalidDate(s) == s # "" /\ ParseRFC3339(s).err # Nil

InvalidStartError(d) ==
    Errorf("invalid start date", [val |-> d.Start], ParseRFC3339(d.Start).err)

InvalidEndError(d) ==
    Errorf("invalid end date", [val |-> d.End], ParseRFC3339(d.End).err)

\* C19: a DateRange clause whose start or end is a non-empty string that is
\* no RFC-3339 timestamp is rejected with an error that names the offending
\* bound and wraps the parser's error; start is checked before end, so the
\* error names start when both are invalid and names end only when start is
\* absent or valid.
C19_InvalidDateNamed ==
    Handled /\ Only(Root, "DateRange") =>
       LET d == Root.DateRange
       IN  /\ InvalidDate(d.Start) => Rejected /\ built.err = InvalidStartError(d)
           /\ ~InvalidDate(d.Start) /\ InvalidDate(d.End) =>
                 Rejected /\ built.err = InvalidEndError(d)

W_C19_BothInvalidNamesStart ==
    /\ Handled
    /\ Only(Root, "DateRange")
    /\ InvalidDate(Root.DateRange.Start)
    /\ InvalidDate(Root.DateRange.End)
    /\ Root.DateRange.Start # Root.DateRange.End
    /\ Rejected
    /\ built.err = InvalidStartError(Root.DateRange)
    /\ response.status = 400

\* Whether a compiled range query includes its lower and its upper endpoint.
IncludesLower(query) ==
    LET flag == IF query.kind = "numeric_range" THEN query.InclusiveMin
                ELSE query.InclusiveStart
    IN  IF flag = Nil THEN DefaultInclusiveMin ELSE flag.val

IncludesUpper(query) ==
    LET flag == IF query.kind = "numeric_range" THEN query.InclusiveMax
                ELSE query.InclusiveEnd
    IN  IF flag = Nil THEN DefaultInclusiveMax ELSE flag.val

\* C20: the inclusivity flags of a NumericRange or DateRange clause decide
\* whether each endpoint is included in the compiled range query: an
\* endpoint whose flag is given as true is included (a flag that is false
\* is a flag that is unset, for which the engine's default applies).
C20_FlagsDecideInclusion ==
    Handled /\ Compiled =>
       /\ Only(Root, "NumericRange") =>
             /\ Root.NumericRange.InclusiveMin => IncludesLower(built.query)
             /\ Root.NumericRange.InclusiveMax => IncludesUpper(built.query)
       /\ Only(Root, "DateRange") =>
             /\ Root.DateRange.InclusiveStart => IncludesLower(built.query)
             /\ Root.DateRange.InclusiveEnd => IncludesUpper(built.query)

(***************************************************************************)
(* Document-id clauses.                                                    *)
(***************************************************************************)
\* The query of the request's YAML document is a doc_id clause.
DocIDClause ==
    /\ yamlBody # Nil
    /\ yamlBody.kind = "yaml"
    /\ yamlBody.extra # Nil
    /\ "doc_id" \in DOMAIN yamlBody.extra

\* C21: a doc_id clause with an empty id sequence is rejected with an
\* error; a doc_id clause with a non-empty id sequence compiles without
\* error to a document-id query over those ids in order.
C21_DocIDCompiles ==
    Handled /\ DocIDClause =>
       LET ids == yamlBody.extra.doc_id.ids
       IN  /\ ids = <<>> => Rejected
           /\ ids # <<>> =>
                 /\ Compiled
                 /\ built.query.kind = "doc_id"
                 /\ built.query.IDs = ids

(***************************************************************************)
(* Search options.                                                         *)
(***************************************************************************)
\* The calls of ApplySearchOptions the caller has made.
Applications == {i \in DOMAIN callHistory : callHistory[i].op = "ApplySearchOptions"}

\* C22: after ApplySearchOptions with a sort list of n >= 1 entries the
\* request's sort order is the n tokens of the entries in the given order:
\* "-_score" for an entry with field "_score" whatever its desc flag, and
\* for any other entry "-" and the field when desc is true, the field when
\* desc is false.
C22_CompositeSort ==
    \A i \in Applications :
       LET h == callHistory[i]
           sorts == h.before.options.Sort
       IN  h.before.options # Nil /\ Len(sorts) >= 1 =>
              h.after.request.Sort =
                 [k \in 1..Len(sorts) |->
                    IF sorts[k].Field = "_score" THEN "-_score"
                    ELSE IF sorts[k].Desc THEN "-" \o sorts[k].Field
                    ELSE sorts[k].Field]

\* C23: ApplySearchOptions called with absent options leaves every
\* attribute of the request as it was: size, from, fields, explain,
\* highlight, sort and query.
C23_AbsentOptionsNoOp ==
    \A i \in Applications :
       callHistory[i].before.options = Nil =>
          callHistory[i].after.request = callHistory[i].before.request

W_C23_CustomRequestKept ==
    \E i \in Applications :
       /\ callHistory[i].before.options = Nil
       /\ callHistory[i].before.request = CustomRequest
       /\ callHistory[i].after.request = CustomRequest

\* C24: ApplySearchOptions with options present sets the request's size to
\* the options' size when that is > 0 and its from to the options' from when
\* that is > 0, and sets the request's field list to the options' when that
\* is not empty; otherwise the request keeps the size, the from and the
\* field list it had before the call.
C24_PageAndFieldsWhenSet ==
    \A i \in Applications :
       LET o == callHistory[i].before.options
           before == callHistory[i].before.request
           after == callHistory[i].after.request
       IN  o # Nil =>
              /\ after.Size = IF o.Size > 0 THEN o.Size ELSE before.Size
              /\ after.From = IF o.From > 0 THEN o.From ELSE before.From
              /\ after.Fields = IF Len(o.Fields.elems) > 0 THEN o.Fields
                                ELSE before.Fields

W_C24_UnsetKeepsRequest ==
    \E i \in Applications :
       LET o == callHistory[i].before.options
       IN  /\ o # Nil
           /\ o.Size = 0 /\ o.From = 5 /\ o.Fields = NilSlice
           /\ callHistory[i].before.request = CustomRequest
           /\ callHistory[i].after.request.Size = CustomRequest.Size
           /\ callHistory[i].after.request.From = 5
           /\ callHistory[i].after.request.Fields = CustomRequest.Fields

\* C25: for any request and any options present, after ApplySearchOptions
\* the request's explain flag equals the options' explain flag, also when
\* the request's flag was true before the call and the options' is false.
C25_ExplainPassthrough ==
    \A i \in Applications :
       callHistory[i].before.options # Nil =>
          callHistory[i].after.request.Explain = callHistory[i].before.options.Explain

\* C25, amended: after ApplySearchOptions with options present the
\* request's explain flag is true when the options' explain flag is true and
\* is otherwise the flag the request had before the call; so it equals the
\* options' flag for a request whose flag was false before the call.
C25_ExplainSetWhenTrue ==
    \A i \in Applications :
       LET o == callHistory[i].before.options
           before == callHistory[i].before.request
           after == callHistory[i].after.request
       IN  o # Nil =>
              /\ after.Explain = IF o.Explain THEN TRUE ELSE before.Explain
              /\ ~before.Explain => after.Explain = o.Explain

W_C25_ExplainKept ==
    \E i \in Applications :
       /\ callHistory[i].before.options # Nil
       /\ ~callHistory[i].before.options.Explain
       /\ callHistory[i].before.request.Explain
       /\ callHistory[i].after.request.Explain

(***************************************************************************)
(* The search handler.                                                     *)
(***************************************************************************)
\* C26: in the /search handler every compilation that fails is answered
\* with a 4xx status that carries the error, and the engine's Search is not
\* called; a failure of the engine's Search is answered with a 5xx status;
\* Search is called at most once for a request, and only with the request
\* made of the compiled query with the options applied.
C26_HandlerReportsFailures ==
    Handled =>
       /\ ~Compiled =>
             /\ response.status \in 400..499
             /\ response.err = built.err
             /\ built.err # Nil
             /\ engineLog = <<>>
       /\ Len(engineLog) <= 1
       /\ engineLog # <<>> =>
             /\ Compiled
             /\ engineLog[1] =
                   ApplySearchOptions(NewSearchRequest(built.query), searchReq.Options)
       /\ Compiled /\ response.err # Nil => response.status \in 500..599

HasTextVector(q) == q.Vector # Nil /\ q.Vector.Text # ""

\* The positions of the clauses of a clause tree, in depth-first order with
\* the lists of a Boolean clause in the order must, should, must_not.
RECURSIVE Positions(_, _)
RECURSIVE PositionsOfList(_, _, _, _)
PositionsOfList(children, list, i, path) ==
    IF i > Len(children) THEN <<>>
    ELSE Positions(children[i], Append(path, <<list, i>>))
         \o PositionsOfList(children, list, i + 1, path)

Positions(q, path) ==
    <<path>> \o (IF q.Bool # Nil
                 THEN PositionsOfList(q.Bool.Must, "must", 1, path)
                      \o PositionsOfList(q.Bool.Should, "should", 1, path)
                      \o PositionsOfList(q.Bool.MustNot, "must_not", 1, path)
                 ELSE <<>>)

\* The texts of the Vector clauses with text at the given positions of a
\* clause tree, in the order of the positions.
RECURSIVE TextsAt(_, _)
TextsAt(q, paths) ==
    IF paths = <<>> THEN <<>>
    ELSE (IF HasTextVector(ClauseAt(q, Head(paths)))
          THEN <<ClauseAt(q, Head(paths)).Vector.Text>> ELSE <<>>)
         \o TextsAt(q, Tail(paths))

\* The texts sent to the embeddings client, in the order of the calls.
RECURSIVE PromptsOf(_)
PromptsOf(calls) ==
    IF calls = <<>> THEN <<>> ELSE <<Head(calls).request.Prompt>> \o PromptsOf(Tail(calls))

Prompts == PromptsOf(embedLog)

\* C29: the embedding calls of a run of BuildBleveQuery are those of the
\* Vector clauses with text of the clause tree, one call a clause with the
\* clause's text, in the depth-first order must, should, must_not, and none
\* for a clause with a raw vector only; a run that fails makes no call
\* after a failed call and none for a clause after the clause it failed at.
C29_EmbeddingCallsInOrder ==
    Handled =>
       /\ IsPrefix(Prompts, TextsAt(Root, Positions(Root, <<>>)))
       /\ Compiled => Prompts = TextsAt(Root, Positions(Root, <<>>))
       /\ \A j \in 1..(Len(embedLog) - 1) : embedLog[j].err = Nil
       /\ (embedLog # <<>> /\ Last(embedLog).err # Nil) => Rejected

\* The same on the trees whose clauses populate one variant each, with the
\* clauses the run compiled.
SingleVariantTreesEmbedInOrder ==
    Handled /\ (\A i \in DOMAIN Positions(Root, <<>>) :
                  Cardinality(PopulatedVariants(ClauseAt(Root, Positions(Root, <<>>)[i]))) <= 1) =>
       /\ IsPrefix(visited, Positions(Root, <<>>))
       /\ Prompts = TextsAt(Root, visited)
       /\ Compiled => visited = Positions(Root, <<>>)
       /\ \A j \in 1..(Len(embedLog) - 1) : embedLog[j].err = Nil
       /\ (embedLog # <<>> /\ Last(embedLog).err # Nil) =>
             /\ Rejected
             /\ TextVector(ClauseAt(Root, Last(visited)))


(***************************************************************************)
(* Applying the options again.                                             *)
(***************************************************************************)
\* C30: a second call of ApplySearchOptions, with the same options and on
\* the request the first call left, leaves the request as the first call
\* left it.
C30_ApplyTwiceAsOnce ==
    \A i \in 1..(Len(callHistory) - 1) :
       (/\ callHistory[i].op = "ApplySearchOptions"
        /\ callHistory[i + 1].op = "ApplySearchOptions"
        /\ callHistory[i + 1].before.options = callHistory[i].before.options) =>
          callHistory[i + 1].after.request = callHistory[i].after.request

W_C30_AppliedTwice ==
    /\ Len(callHistory) = 2
    /\ callHistory[1].op = "ApplySearchOptions"
    /\ callHistory[2].op = "ApplySearchOptions"
    /\ callHistory[1].before.options # Nil
    /\ callHistory[1].before.options.From > 0
    /\ Len(callHistory[1].before.options.Sort) = 2
    /\ callHistory[1].after.request # callHistory[1].before.request
    /\ callHistory[2].before.request = callHistory[1].after.request
    /\ callHistory[2].after.request = callHistory[1].after.request

====
